---- MODULE Spec2Model ----
(***************************************************************************)
(* Hybrid retrieval and ranking engine of ConfluxAI_hybrid:                *)
(*   services/search_service.py        (dense index, SearchService)        *)
(*   services/hybrid_search_service.py (lexical index + fusion)            *)
(*   services/indexing_service.py      (metadata store + index glue)       *)
(* Scores are fixed-point numbers in thousandths (1000 = 1.0); request     *)
(* weights are in tenths (7 = 0.7); a combined score is an exact rational. *)
(***************************************************************************)
EXTENDS Integers, Sequences, FiniteSets, TLC

\* ------------------------------------------------------------ bounds
\* number of index_file calls that reach the file processor (file ids are
\* fresh uuid4 values, modelled as 1..MaxFiles)
MaxFiles == 2

\* ------------------------------------------------------------ texts
\* A text is a sequence of words as written in the file or the query.
TApple == <<"Apple">>
TBanana == <<"banana">>
TBoth == <<"apple", "banana">>
TCherry == <<"cherry">>

\* str.lower() on one word
Lower(w) == IF w = "Apple" THEN "apple" ELSE IF w = "PDF" THEN "pdf" ELSE w

\* _tokenize_text: re.findall(r'\b\w+\b', text.lower())
Tokenize(text) == [i \in DOMAIN text |-> Lower(text[i])]

\* number of characters of one word
WordLen(w) == IF w = "banana" \/ w = "cherry" THEN 6 ELSE 5

RECURSIVE CharLen(_)
\* len() of the text, the words joined by single blanks
CharLen(text) ==
    IF text = <<>> THEN 0
    ELSE IF Len(text) = 1 THEN WordLen(text[1])
    ELSE WordLen(text[1]) + 1 + CharLen(Tail(text))

\* ------------------------------------------------------------ embedding
\* encoder.encode + normalisation + inner product: the cosine similarity of
\* the unit vectors of two texts, in thousandths.  The provider is
\* deterministic, so a text against itself gives 1000.
Cosine(a, b) ==
    IF a = b THEN 1000
    ELSE IF {a, b} = {TApple, TBoth} THEN 800
    ELSE IF {a, b} = {TBanana, TBoth} THEN 750
    ELSE -100

\* ------------------------------------------------------------ rationals
Rat(n, d) == [num |-> n, den |-> d]
RatOfInt(n) == Rat(n, 1)
RatAdd(a, b) == Rat(a.num * b.den + b.num * a.den, a.den * b.den)
RatScale(a, k) == Rat(a.num * k, a.den)
\* denominators are positive throughout
RatLeq(a, b) == a.num * b.den <= b.num * a.den
RatLt(a, b) == a.num * b.den < b.num * a.den
RatEq(a, b) == a.num * b.den = b.num * a.den

\* ------------------------------------------------------------ uploads
\* What FileProcessor.process_file makes of an uploaded file: the chunk
\* texts of _create_chunks, in order.
Uploads ==
    { [filename |-> "a.pdf", chunks |-> <<TApple>>],
      [filename |-> "b.txt", chunks |-> <<TBoth, TBanana>>],
      [filename |-> "e.txt", chunks |-> <<>>],
      [filename |-> "x.exe", chunks |-> <<TCherry>>] }

\* Settings.is_allowed_file
is_allowed_file(filename) == filename \in {"a.pdf", "b.txt", "e.txt"}

\* mimetypes.guess_type(filename)
GuessType(filename) ==
    IF filename = "a.pdf" THEN "application/pdf" ELSE "text/plain"

\* the document dicts SearchService.add_documents builds for a processing result
NewDocuments(file_id, up) ==
    [i \in DOMAIN up.chunks |->
        [chunk_id |-> <<file_id, i - 1>>,
         file_id |-> file_id,
         filename |-> up.filename,
         content |-> up.chunks[i],
         content_type |-> GuessType(up.filename),
         metadata |-> [length |-> CharLen(up.chunks[i])]]]

\* ------------------------------------------------------------ helpers
RECURSIVE SelectSeq2(_, _)
\* the elements of s whose file_id is not file_id, in order
SelectSeq2(s, file_id) ==
    IF s = <<>> THEN <<>>
    ELSE IF Head(s).file_id # file_id
         THEN <<Head(s)>> \o SelectSeq2(Tail(s), file_id)
         ELSE SelectSeq2(Tail(s), file_id)

Range(s) == {s[i] : i \in DOMAIN s}
Prefix(s, n) == IF Len(s) <= n THEN s ELSE SubSeq(s, 1, n)
\* the Python slice s[:n]: a negative n counts from the end
Slice(s, n) == IF n >= 0 THEN Prefix(s, n) ELSE Prefix(s, IF Len(s) + n > 0 THEN Len(s) + n ELSE 0)
Min(a, b) == IF a <= b THEN a ELSE b

RECURSIVE InsertByScore(_, _)
\* x placed behind every element whose score is not smaller (keeps ties in order)
InsertByScore(x, s) ==
    IF s = <<>> THEN <<x>>
    ELSE IF RatLt(Head(s).score, x.score) THEN <<x>> \o s
    ELSE <<Head(s)>> \o InsertByScore(x, Tail(s))

RECURSIVE SortByScore(_)
\* list.sort(key=lambda x: x.score, reverse=True): stable, descending
SortByScore(s) ==
    IF s = <<>> THEN <<>>
    ELSE InsertByScore(s[Len(s)], SortByScore(SubSeq(s, 1, Len(s) - 1)))

\* ------------------------------------------------------------ state
VARIABLES
    ss_initialized,     \* SearchService.initialized
    index,              \* SearchService.index: the embedded text of each vector
    documents,          \* SearchService.documents
    disk,               \* the index file and the metadata file in INDEX_DIR
    is_initialized,     \* IndexingService.initialized
    is_search_service,  \* IndexingService.search_service is set
    db_files,           \* rows of table files (file ids)
    db_chunks,          \* rows of table chunks (chunk ids)
    next_file_id,       \* the next fresh file id of the file processor
    hs_initialized,     \* HybridSearchService.initialized
    bm25_index,         \* HybridSearchService.bm25_index: its corpus, or NoIndex
    documents_for_bm25, \* HybridSearchService.documents_for_bm25
    document_metadata,  \* HybridSearchService.document_metadata
    ret,                \* the call that returned last, with its result
    deleted,            \* file ids for which delete_file has returned True
    last_write,         \* the last completed write to the dense index
    loop                \* the event loop: the write coroutine it runs and the
                        \* search request that waits for it

vars == <<ss_initialized, index, documents, disk, is_initialized, is_search_service,
          db_files, db_chunks, next_file_id, hs_initialized, bm25_index,
          documents_for_bm25, document_metadata, ret, deleted, last_write, loop>>

dense_vars == <<ss_initialized, index, documents, disk, loop>>
store_vars == <<is_initialized, is_search_service, db_files, db_chunks, next_file_id>>
lex_vars == <<hs_initialized, bm25_index, documents_for_bm25, document_metadata>>

\* neither index_path nor metadata_path exists
NoFile == [exists |-> FALSE, index |-> <<>>, documents |-> <<>>]
\* the index written, the documents list never pickled
SaveIndex_IndexOnly(idx, docs) == [exists |-> TRUE, index |-> idx, documents |-> <<>>]
\* SearchService._save_index: faiss.write_index and pickle.dump of the documents
SaveIndex(idx, docs) == [exists |-> TRUE, index |-> idx, documents |-> docs]
\* SearchService._load_or_create_index: <<index, documents, files on disk>>
LoadOrCreateIndex(dsk) ==
    IF dsk.exists THEN <<dsk.index, dsk.documents, dsk>>
    ELSE <<<<>>, <<>>, SaveIndex(<<>>, <<>>)>>

\* bm25_index is None
NoIndex == [built |-> FALSE, corpus |-> <<>>]
\* BM25Okapi(corpus): the index keeps the tokenized corpus it was built from
BM25Okapi(corpus) == [built |-> TRUE, corpus |-> corpus]
NoRequest == [query |-> <<>>]
NoWrite == [op |-> "none", file_id |-> 0, chunks |-> <<>>]
\* the event loop with no coroutine in progress and no request waiting.
\* pc is the statement the write coroutine executes next, pre and post are
\* <<index, documents>> before the write and as the write leaves them
Idle == [op |-> "none", pc |-> "done", file_id |-> 0, chunks |-> <<>>,
         pre |-> <<<<>>, <<>>>>, post |-> <<<<>>, <<>>>>,
         waiting |-> FALSE, req |-> NoRequest, arrived_at |-> "done"]

\* the shape of every return record
Return(op, req, raised, value, results, total, search_type, facets) ==
    [op |-> op, req |-> req, raised |-> raised, value |-> value,
     results |-> results, total_results |-> total, search_type |-> search_type,
     facets |-> facets]

NoFacets == [requested |-> FALSE, file_types |-> <<>>, content_types |-> <<>>]

Returned(op, req, value) ==
    Return(op, req, FALSE, value, <<>>, 0, "", NoFacets)

Raised(op, req) ==
    Return(op, req, TRUE, FALSE, <<>>, 0, "", NoFacets)

\* ------------------------------------------------------------ dense search
\* SearchResult built from a document dict and a score
MakeResult(doc, score) ==
    [content |-> doc.content, score |-> score, file_id |-> doc.file_id,
     filename |-> doc.filename, chunk_id |-> doc.chunk_id,
     metadata |-> doc.metadata, content_type |-> doc.content_type]

\* index.search(query_embedding, k) of the flat inner-product index: the k
\* best positions, best first; of equal scores the lower position comes first
IndexSearch(idx, query, k) ==
    Prefix(SortByScore([i \in DOMAIN idx |->
                          [pos |-> i, score |-> RatOfInt(Cosine(query, idx[i]))]]), k)

RECURSIVE FilterHits_NoStop(_, _, _, _)
\* the loop without its break at limit results
FilterHits_NoStop(hits, docs, limit, threshold) ==
    IF hits = <<>> THEN <<>>
    ELSE IF RatLeq(RatOfInt(threshold), Head(hits).score) /\ Head(hits).pos <= Len(docs)
         THEN <<MakeResult(docs[Head(hits).pos], Head(hits).score)>>
                \o FilterHits_NoStop(Tail(hits), docs, limit, threshold)
         ELSE FilterHits_NoStop(Tail(hits), docs, limit, threshold)

RECURSIVE FilterHits(_, _, _, _)
\* the loop of SearchService.search over the hits: keep those at or above the
\* threshold that have a document, stop at limit results
FilterHits(hits, docs, limit, threshold) ==
    IF hits = <<>> \/ limit <= 0 THEN <<>>
    ELSE IF RatLeq(RatOfInt(threshold), Head(hits).score) /\ Head(hits).pos <= Len(docs)
         THEN <<MakeResult(docs[Head(hits).pos], Head(hits).score)>>
                \o FilterHits(Tail(hits), docs, limit - 1, threshold)
         ELSE FilterHits(Tail(hits), docs, limit, threshold)

\* SearchService.search once initialized
SearchResults(idx, docs, query, limit, threshold) ==
    IF Len(idx) = 0 THEN <<>>
    ELSE FilterHits(IndexSearch(idx, query, Min(limit * 2, Len(idx))),
                    docs, limit, threshold)

\* ------------------------------------------------------------ lexical search
\* number of corpus documents that contain the term
DocFreq(corpus, term) == Cardinality({i \in DOMAIN corpus : term \in Range(corpus[i])})

\* weight of one matching query term: rarer terms weigh more (3.0 per unit)
TermWeight(corpus, term) == 3000 * (Len(corpus) - DocFreq(corpus, term) + 1)

RECURSIVE SumWeights(_, _, _)
SumWeights(corpus, doc_tokens, query_tokens) ==
    IF query_tokens = <<>> THEN 0
    ELSE (IF Head(query_tokens) \in Range(doc_tokens)
          THEN TermWeight(corpus, Head(query_tokens)) ELSE 0)
         + SumWeights(corpus, doc_tokens, Tail(query_tokens))

\* bm25_index.get_scores(query_tokens): one relevance score per corpus document,
\* non-negative and unbounded, 0 when no query term occurs in the document
get_scores(corpus, query_tokens) ==
    [i \in DOMAIN corpus |-> SumWeights(corpus, corpus[i], query_tokens)]

RECURSIVE KeywordHits(_, _, _)
\* the loop of _get_keyword_results from position i on: a result for every
\* positive score that has a metadata entry
KeywordHits(scores, meta, i) ==
    IF i > Len(scores) THEN <<>>
    ELSE IF scores[i] > 0 /\ i <= Len(meta)
         THEN <<MakeResult(meta[i], RatOfInt(scores[i]))>> \o KeywordHits(scores, meta, i + 1)
         ELSE KeywordHits(scores, meta, i + 1)

\* HybridSearchService._get_keyword_results
GetKeywordResults(bm25, docs_for_bm25, meta, req) ==
    IF ~bm25.built \/ docs_for_bm25 = <<>> THEN <<>>
    ELSE Slice(SortByScore(KeywordHits(get_scores(bm25.corpus, Tokenize(req.query)),
                                       meta, 1)),
               req.limit * 2)

\* HybridSearchService._get_semantic_results: a failing dense search gives []
GetSemanticResults(initialized, idx, docs, req) ==
    IF ~initialized THEN <<>>
    ELSE SearchResults(idx, docs, req.query, req.limit * 2, req.threshold)

\* ------------------------------------------------------------ fusion
\* the weights taken as given (in tenths), never divided by their sum
EffectiveWeights_Raw(semantic_weight, keyword_weight) ==
    IF semantic_weight + keyword_weight > 0
    THEN [semantic |-> Rat(semantic_weight, 10), keyword |-> Rat(keyword_weight, 10)]
    ELSE [semantic |-> Rat(7, 10), keyword |-> Rat(3, 10)]

\* "Normalize weights" of _combine_results: the weights the combined score uses
EffectiveWeights(semantic_weight, keyword_weight) ==
    LET total_weight == semantic_weight + keyword_weight IN
    IF total_weight > 0
    THEN [semantic |-> Rat(semantic_weight, total_weight),
          keyword |-> Rat(keyword_weight, total_weight)]
    ELSE [semantic |-> Rat(7, 10), keyword |-> Rat(3, 10)]

\* position of the entry with this key in the combined map, 0 if absent
KeyPos(map, key) ==
    IF \E i \in DOMAIN map : map[i].result.chunk_id = key
    THEN CHOOSE i \in DOMAIN map : map[i].result.chunk_id = key
    ELSE 0

RECURSIVE AddSemantic(_, _)
\* "Add semantic results": combined_map[key] = {...}, a dict in insertion order
AddSemantic(map, results) ==
    IF results = <<>> THEN map
    ELSE LET r == Head(results)
             e == [result |-> r, semantic_score |-> r.score,
                   keyword_score |-> RatOfInt(0)]
             p == KeyPos(map, r.chunk_id)
         IN AddSemantic(IF p = 0 THEN Append(map, e) ELSE [map EXCEPT ![p] = e],
                        Tail(results))

RECURSIVE AddKeyword_KnownOnly(_, _)
\* the keyword loop without its else branch: a chunk the semantic path did
\* not return never enters the map
AddKeyword_KnownOnly(map, results) ==
    IF results = <<>> THEN map
    ELSE LET r == Head(results)
             p == KeyPos(map, r.chunk_id)
         IN AddKeyword_KnownOnly(IF p = 0 THEN map
                                 ELSE [map EXCEPT ![p].keyword_score = r.score],
                                 Tail(results))

RECURSIVE AddKeyword_Replace(_, _)
\* the keyword loop written like the semantic loop: a known key gets a fresh
\* keyword-only entry
AddKeyword_Replace(map, results) ==
    IF results = <<>> THEN map
    ELSE LET r == Head(results)
             e == [result |-> r, semantic_score |-> RatOfInt(0),
                   keyword_score |-> r.score]
             p == KeyPos(map, r.chunk_id)
         IN AddKeyword_Replace(IF p = 0 THEN Append(map, e) ELSE [map EXCEPT ![p] = e],
                               Tail(results))

RECURSIVE AddKeyword(_, _)
\* "Add keyword results": set the keyword score of a known key, else a new entry
AddKeyword(map, results) ==
    IF results = <<>> THEN map
    ELSE LET r == Head(results)
             e == [result |-> r, semantic_score |-> RatOfInt(0),
                   keyword_score |-> r.score]
             p == KeyPos(map, r.chunk_id)
         IN AddKeyword(IF p = 0 THEN Append(map, e)
                       ELSE [map EXCEPT ![p].keyword_score = r.score],
                       Tail(results))

\* min(semantic_score, 1.0)
SemanticNorm(semantic_score) ==
    IF RatLeq(semantic_score, RatOfInt(1000)) THEN semantic_score ELSE RatOfInt(1000)

\* min(keyword_score / 10.0, 1.0) if keyword_score > 0 else 0.0
KeywordNorm(keyword_score) ==
    IF RatLt(RatOfInt(0), keyword_score)
    THEN (IF RatLeq(Rat(keyword_score.num, keyword_score.den * 10), RatOfInt(1000))
          THEN Rat(keyword_score.num, keyword_score.den * 10)
          ELSE RatOfInt(1000))
    ELSE RatOfInt(0)

\* semantic_weight * semantic_score_norm + keyword_weight * keyword_score_norm
CombinedScore(w, semantic_score, keyword_score) ==
    LET s == SemanticNorm(semantic_score)
        k == KeywordNorm(keyword_score)
    IN RatAdd(Rat(w.semantic.num * s.num, w.semantic.den * s.den),
              Rat(w.keyword.num * k.num, w.keyword.den * k.den))

\* one entry of the combined map turned into its fused result
Fuse(w, e) ==
    LET combined_score == CombinedScore(w, e.semantic_score, e.keyword_score) IN
    [e.result EXCEPT
        !.score = combined_score,
        !.metadata = [semantic_score |-> e.semantic_score,
                      keyword_score |-> e.keyword_score,
                      combined_score |-> combined_score,
                      search_type |-> "hybrid"] @@ e.result.metadata]

\* HybridSearchService._combine_results
CombineResults(semantic_results, keyword_results, semantic_weight, keyword_weight) ==
    LET w == EffectiveWeights(semantic_weight, keyword_weight)
        combined_map == AddKeyword(AddSemantic(<<>>, semantic_results), keyword_results)
    IN SortByScore([i \in DOMAIN combined_map |-> Fuse(w, combined_map[i])])

\* ------------------------------------------------------------ filters, sort, facets
\* filename.split('.')[-1].lower()
Ext(filename) == IF filename = "a.pdf" THEN "pdf" ELSE IF filename = "x.exe" THEN "exe" ELSE "txt"

\* any(r.filename.lower().endswith('.' + ft.lower()) for ft in file_types)
MatchesFileType(r, file_types) ==
    \E i \in DOMAIN file_types : Ext(r.filename) = Lower(file_types[i])

\* r.metadata.get(key) == value for every key, value of metadata_filters
MatchesMetadata(r, metadata_filters) ==
    \A i \in DOMAIN metadata_filters :
        /\ metadata_filters[i].key \in DOMAIN r.metadata
        /\ r.metadata[metadata_filters[i].key] = metadata_filters[i].value

RECURSIVE Keep_AnyContentType(_, _)
\* the filters without the one on content_types
Keep_AnyContentType(results, req) ==
    IF results = <<>> THEN <<>>
    ELSE LET r == Head(results)
             pass == /\ req.file_types # <<>> => MatchesFileType(r, req.file_types)
                     /\ MatchesMetadata(r, req.metadata_filters)
                     /\ RatLeq(RatOfInt(req.threshold), r.score)
         IN (IF pass THEN <<r>> ELSE <<>>) \o Keep_AnyContentType(Tail(results), req)

RECURSIVE Keep(_, _)
\* [r for r in results if r passes], in order
Keep(results, req) ==
    IF results = <<>> THEN <<>>
    ELSE LET r == Head(results)
             pass == /\ req.file_types # <<>> => MatchesFileType(r, req.file_types)
                     /\ req.content_types # <<>> => r.content_type \in Range(req.content_types)
                     /\ MatchesMetadata(r, req.metadata_filters)
                     /\ RatLeq(RatOfInt(req.threshold), r.score)
         IN (IF pass THEN <<r>> ELSE <<>>) \o Keep(Tail(results), req)

RECURSIVE ApplyFilters_Below(_, _)
\* the threshold comparison the wrong way round: keeps score <= threshold
ApplyFilters_Below(results, req) ==
    IF results = <<>> THEN <<>>
    ELSE (IF RatLeq(Head(results).score, RatOfInt(req.threshold))
          THEN <<Head(results)>> ELSE <<>>) \o ApplyFilters_Below(Tail(results), req)

\* HybridSearchService._apply_filters
ApplyFilters(results, req) == Keep(results, req)

\* position of a filename in lexicographic order
NameRank(filename) ==
    IF filename = "a.pdf" THEN 1 ELSE IF filename = "b.txt" THEN 2
    ELSE IF filename = "e.txt" THEN 3 ELSE 4

RECURSIVE InsertByName(_, _)
InsertByName(x, s) ==
    IF s = <<>> THEN <<x>>
    ELSE IF NameRank(x.filename) < NameRank(Head(s).filename) THEN <<x>> \o s
    ELSE <<Head(s)>> \o InsertByName(x, Tail(s))

RECURSIVE SortByName(_)
\* sorted(results, key=lambda x: x.filename or '', reverse=False)
SortByName(s) ==
    IF s = <<>> THEN <<>>
    ELSE InsertByName(s[Len(s)], SortByName(SubSeq(s, 1, Len(s) - 1)))

\* the relevance order by a sort that is not stable: results of equal score
\* come out in the reverse of their input order
SortResults_TiesReversed(results, sort_by) ==
    IF sort_by = "relevance"
    THEN SortByScore([i \in DOMAIN results |-> results[Len(results) + 1 - i]])
    ELSE IF sort_by = "filename" THEN SortByName(results)
    ELSE results

\* HybridSearchService._sort_results; no result carries 'upload_time', so the
\* date order has equal keys throughout and keeps the list as it is
SortResults(results, sort_by) ==
    IF sort_by = "relevance" THEN SortByScore(results)
    ELSE IF sort_by = "filename" THEN SortByName(results)
    ELSE results

\* the count of each value in a sequence of keys, as a function
CountBy(keys) ==
    [v \in {keys[i] : i \in DOMAIN keys} |->
        Cardinality({i \in DOMAIN keys : keys[i] = v})]

\* HybridSearchService._generate_facets (no result has an 'author')
GenerateFacets(results) ==
    [requested |-> TRUE,
     file_types |-> CountBy([i \in DOMAIN results |-> Ext(results[i].filename)]),
     content_types |-> CountBy([i \in DOMAIN results |-> results[i].content_type])]

\* the response with its facets counted over the returned page only
Respond_FacetsOfPage(semantic_results, keyword_results, bm25, req) ==
    LET combined_results == CombineResults(semantic_results, keyword_results,
                                           req.semantic_weight, req.keyword_weight)
        filtered_results == ApplyFilters(combined_results, req)
        sorted_results == SortResults(filtered_results, req.sort_by)
        limited_results == Slice(sorted_results, req.limit)
    IN Return("hybrid_search", req, FALSE, TRUE, limited_results,
              Len(filtered_results),
              IF bm25.built THEN "hybrid" ELSE "semantic",
              IF req.facets THEN GenerateFacets(limited_results) ELSE NoFacets)

\* hybrid_search from the answers of its two paths on: combine, filter, sort,
\* limit, facets, response
Respond(semantic_results, keyword_results, bm25, req) ==
    LET combined_results == CombineResults(semantic_results, keyword_results,
                                           req.semantic_weight, req.keyword_weight)
        filtered_results == ApplyFilters(combined_results, req)
        sorted_results == SortResults(filtered_results, req.sort_by)
        limited_results == Slice(sorted_results, req.limit)
    IN Return("hybrid_search", req, FALSE, TRUE, limited_results,
              Len(filtered_results),
              IF bm25.built THEN "hybrid" ELSE "semantic",
              IF req.facets THEN GenerateFacets(filtered_results) ELSE NoFacets)

\* the body of HybridSearchService.hybrid_search once initialized
HybridSearchResponse(ss_init, idx, docs, bm25, docs_for_bm25, meta, req) ==
    Respond(GetSemanticResults(ss_init, idx, docs, req),
            GetKeywordResults(bm25, docs_for_bm25, meta, req),
            bm25, req)

\* ------------------------------------------------------------ requests
Queries == {TApple, TBoth}
Limits == {1, 2}
Thresholds == {-200, 700, 990}
\* <<semantic_weight, keyword_weight>> in tenths
WeightPairs == {<<0, 0>>, <<2, 6>>, <<0, 10>>}

\* arguments of SearchService.search
SearchRequests == [query : Queries, limit : Limits, threshold : Thresholds]

HybridRequest(q, l, t, w, ft, ct, mf, sb, fc) ==
    [query |-> q, limit |-> l, threshold |-> t,
     semantic_weight |-> w[1], keyword_weight |-> w[2],
     file_types |-> ft, content_types |-> ct, metadata_filters |-> mf,
     sort_by |-> sb, facets |-> fc]

\* requests without filters, in relevance order
PlainRequests ==
    {HybridRequest(q, l, t, w, <<>>, <<>>, <<>>, "relevance", FALSE) :
        q \in Queries, l \in Limits, t \in Thresholds, w \in WeightPairs}

\* requests that filter, sort and facet
RefinedRequests ==
    { HybridRequest(TBoth, 2, -200, <<2, 6>>, <<"PDF">>, <<>>, <<>>, "relevance", TRUE),
      HybridRequest(TBoth, 2, -200, <<2, 6>>, <<"txt", "pdf">>, <<>>, <<>>, "filename", TRUE),
      HybridRequest(TBoth, 2, -200, <<2, 6>>, <<>>, <<"text/plain">>, <<>>, "date", FALSE),
      HybridRequest(TApple, 2, -200, <<2, 6>>, <<>>, <<>>,
                    <<[key |-> "length", value |-> 5]>>, "relevance", TRUE),
      HybridRequest(TApple, 1, -200, <<0, 0>>, <<>>, <<>>,
                    <<[key |-> "author", value |-> 5]>>, "unknown", FALSE) }

HybridRequests == PlainRequests \cup RefinedRequests

\* requests for the fusion pipeline: thresholds between the dense scores, a
\* page shorter than the result list, filters of every kind, and a negative
\* limit, which HybridSearchRequest accepts
FusionRequests ==
    { HybridRequest(TApple, 2, 850, <<2, 6>>, <<>>, <<>>, <<>>, "relevance", FALSE),
      HybridRequest(TBoth, 2, 850, <<2, 6>>, <<>>, <<>>, <<>>, "relevance", FALSE),
      HybridRequest(TBoth, 1, -200, <<0, 0>>, <<>>, <<>>, <<>>, "relevance", FALSE),
      HybridRequest(TBoth, 2, -200, <<2, 6>>, <<"PDF">>, <<>>, <<>>, "relevance", TRUE),
      HybridRequest(TBoth, 2, -200, <<2, 6>>, <<"txt", "pdf">>, <<"text/plain">>, <<>>,
                    "filename", FALSE),
      HybridRequest(TApple, 2, 700, <<0, 10>>, <<>>, <<>>,
                    <<[key |-> "length", value |-> 5]>>, "relevance", FALSE),
      HybridRequest(TBoth, -1, -200, <<2, 6>>, <<>>, <<>>, <<>>, "relevance", FALSE) }

FileIds == 1..MaxFiles

\* a hybrid_search call together with what its two paths meet while it runs:
\* dense_raises when encoder.encode or index.search raises, keyword_raises
\* when get_scores raises
Call(req, dense_raises, keyword_raises) ==
    [query |-> req.query, limit |-> req.limit, threshold |-> req.threshold,
     semantic_weight |-> req.semantic_weight, keyword_weight |-> req.keyword_weight,
     file_types |-> req.file_types, content_types |-> req.content_types,
     metadata_filters |-> req.metadata_filters, sort_by |-> req.sort_by,
     facets |-> req.facets,
     dense_raises |-> dense_raises, keyword_raises |-> keyword_raises]

\* well-formed requests of the calls that may meet a failing path
BaseRequests ==
    { HybridRequest(TBoth, 1, -200, <<2, 6>>, <<>>, <<"text/plain">>, <<>>, "relevance", TRUE),
      HybridRequest(TApple, 2, -200, <<2, 6>>, <<>>, <<>>,
                    <<[key |-> "length", value |-> 5]>>, "relevance", TRUE),
      HybridRequest(TBoth, 2, -200, <<0, 0>>, <<"txt", "pdf">>, <<>>, <<>>, "filename", TRUE),
      HybridRequest(TApple, 2, 700, <<0, 10>>, <<>>, <<>>, <<>>, "relevance", FALSE) }

\* requests a HybridSearchRequest accepts although they are malformed: a
\* negative weight, a limit of 0, an empty query
InvalidRequests ==
    { HybridRequest(TApple, 2, -200, <<-2, 6>>, <<>>, <<>>, <<>>, "relevance", FALSE),
      HybridRequest(TApple, 0, -200, <<2, 6>>, <<>>, <<>>, <<>>, "relevance", FALSE),
      HybridRequest(<<>>, 2, -200, <<2, 6>>, <<>>, <<>>, <<>>, "relevance", FALSE) }

Calls ==
    {Call(req, d, k) : req \in BaseRequests, d \in BOOLEAN, k \in BOOLEAN}
      \cup {Call(req, FALSE, FALSE) : req \in InvalidRequests}

\* ------------------------------------------------------------ initial state
\* the three services as constructed, before any initialize()
Init ==
    /\ ss_initialized = FALSE
    /\ index = <<>>
    /\ documents = <<>>
    /\ disk = NoFile
    /\ is_initialized = FALSE
    /\ is_search_service = FALSE
    /\ db_files = {}
    /\ db_chunks = {}
    /\ next_file_id = 1
    /\ hs_initialized = FALSE
    /\ bm25_index = NoIndex
    /\ documents_for_bm25 = <<>>
    /\ document_metadata = <<>>
    /\ ret = Returned("init", NoRequest, TRUE)
    /\ deleted = {}
    /\ last_write = NoWrite
    /\ loop = Idle

\* ------------------------------------------------------------ start-up
\* lifespan of main.py up to its yield: SearchService.initialize (which loads
\* the saved index or creates and saves an empty one),
\* IndexingService.initialize and set_search_service; requests are served
\* only afterwards
Lifespan ==
    /\ ~ss_initialized
    /\ ss_initialized' = TRUE
    /\ LET loaded == LoadOrCreateIndex(disk)
       IN /\ index' = loaded[1]
          /\ documents' = loaded[2]
          /\ disk' = loaded[3]
    /\ is_initialized' = TRUE
    /\ is_search_service' = TRUE
    /\ ret' = Returned("lifespan", NoRequest, TRUE)
    /\ UNCHANGED <<db_files, db_chunks, next_file_id, lex_vars, deleted, last_write, loop>>

\* the lexical state _build_bm25_index leaves: <<index, documents_for_bm25, document_metadata>>
BuildBm25Index(ss_init, docs, bm25, docs_for_bm25, meta) ==
    IF ~ss_init \/ docs = <<>> THEN <<bm25, docs_for_bm25, meta>>
    ELSE <<BM25Okapi([i \in DOMAIN docs |-> Tokenize(docs[i].content)]),
           [i \in DOMAIN docs |-> docs[i].content],
           docs>>

\* HybridSearchService.initialize
HybridInitialize ==
    /\ ~hs_initialized
    /\ LET built == BuildBm25Index(ss_initialized, documents, bm25_index,
                                   documents_for_bm25, document_metadata)
       IN /\ bm25_index' = built[1]
          /\ documents_for_bm25' = built[2]
          /\ document_metadata' = built[3]
    /\ hs_initialized' = TRUE
    /\ ret' = Returned("hybrid_initialize", NoRequest, TRUE)
    /\ UNCHANGED <<dense_vars, store_vars, deleted, last_write>>

\* ------------------------------------------------------------ indexing
\* the vectors added to the index, the documents list never extended
AddDocuments_NoExtend(idx, docs, new_documents) ==
    IF new_documents = <<>> THEN <<idx, docs>>
    ELSE <<idx \o [i \in DOMAIN new_documents |-> new_documents[i].content], docs>>

\* SearchService.add_documents: <<index, documents>> afterwards
AddDocuments(idx, docs, new_documents) ==
    IF new_documents = <<>> THEN <<idx, docs>>
    ELSE <<idx \o [i \in DOMAIN new_documents |-> new_documents[i].content],
           docs \o new_documents>>

\* IndexingService.index_file(file_path, filename)
IndexFile(up) ==
    IF ~is_initialized \/ ~is_allowed_file(up.filename)
    THEN /\ ret' = Raised("index_file", up)
         /\ UNCHANGED <<dense_vars, store_vars, lex_vars, deleted, last_write>>
    ELSE /\ next_file_id <= MaxFiles
         /\ LET file_id == next_file_id
                new_documents == NewDocuments(file_id, up)
                added == AddDocuments(index, documents, new_documents)
                to_dense == is_search_service /\ ss_initialized
            IN /\ next_file_id' = next_file_id + 1
               /\ db_files' = db_files \cup {file_id}
               /\ db_chunks' = db_chunks \cup {new_documents[i].chunk_id : i \in DOMAIN new_documents}
               /\ index' = IF to_dense THEN added[1] ELSE index
               /\ documents' = IF to_dense THEN added[2] ELSE documents
               /\ disk' = IF to_dense /\ new_documents # <<>>
                           THEN SaveIndex(added[1], added[2]) ELSE disk
               /\ last_write' = IF to_dense /\ new_documents # <<>>
                                 THEN [op |-> "add", file_id |-> file_id,
                                       chunks |-> new_documents]
                                 ELSE last_write
               /\ ret' = Returned("index_file", up,
                                  [file_id |-> file_id,
                                   chunks_indexed |-> Len(new_documents)])
         /\ UNCHANGED <<ss_initialized, loop, is_initialized, is_search_service, lex_vars, deleted>>

\* the document dicts of one file as SearchService.documents holds them
DocumentsOf(docs, file_id) == SelectSeq(docs, LAMBDA d : d.file_id = file_id)

\* SearchService._rebuild_index: every kept document is embedded again
RebuildIndex(docs) == [i \in DOMAIN docs |-> docs[i].content]

\* the kept documents counted but never assigned to self.documents
DeleteFileDocuments_NotAssigned(idx, docs, file_id) ==
    <<idx, docs, Len(SelectSeq2(docs, file_id)) < Len(docs)>>

\* SearchService.delete_file_documents: <<index, documents, deleted anything>>
DeleteFileDocuments(idx, docs, file_id) ==
    LET docs_to_keep == SelectSeq2(docs, file_id) IN
    IF Len(docs_to_keep) < Len(docs)
    THEN <<RebuildIndex(docs_to_keep), docs_to_keep, TRUE>>
    ELSE <<idx, docs, FALSE>>

\* delete_file without the lookup of the file in table files
DeleteFile_NoLookup(file_id) ==
    IF ~is_initialized
    THEN /\ ret' = Raised("delete_file", file_id)
         /\ UNCHANGED <<dense_vars, store_vars, lex_vars, deleted, last_write>>
    ELSE LET to_dense == is_search_service /\ ss_initialized
             removed == DeleteFileDocuments(index, documents, file_id)
             gone == DocumentsOf(documents, file_id)
         IN /\ index' = IF to_dense THEN removed[1] ELSE index
            /\ documents' = IF to_dense THEN removed[2] ELSE documents
            /\ disk' = IF to_dense /\ removed[3]
                        THEN SaveIndex(removed[1], removed[2]) ELSE disk
            /\ last_write' = IF to_dense /\ removed[3]
                              THEN [op |-> "delete", file_id |-> file_id, chunks |-> gone]
                              ELSE last_write
            /\ db_chunks' = {c \in db_chunks : c[1] # file_id}
            /\ db_files' = db_files \ {file_id}
            /\ deleted' = deleted \cup {file_id}
            /\ ret' = Returned("delete_file", file_id, TRUE)
            /\ UNCHANGED <<ss_initialized, loop, is_initialized, is_search_service,
                           next_file_id, lex_vars>>

\* IndexingService.delete_file(file_id)
DeleteFile(file_id) ==
    IF ~is_initialized
    THEN /\ ret' = Raised("delete_file", file_id)
         /\ UNCHANGED <<dense_vars, store_vars, lex_vars, deleted, last_write>>
    ELSE IF file_id \notin db_files
    THEN /\ ret' = Returned("delete_file", file_id, FALSE)
         /\ UNCHANGED <<dense_vars, store_vars, lex_vars, deleted, last_write>>
    ELSE LET to_dense == is_search_service /\ ss_initialized
             removed == DeleteFileDocuments(index, documents, file_id)
             gone == DocumentsOf(documents, file_id)
         IN /\ index' = IF to_dense THEN removed[1] ELSE index
            /\ documents' = IF to_dense THEN removed[2] ELSE documents
            /\ disk' = IF to_dense /\ removed[3]
                        THEN SaveIndex(removed[1], removed[2]) ELSE disk
            /\ last_write' = IF to_dense /\ removed[3]
                              THEN [op |-> "delete", file_id |-> file_id, chunks |-> gone]
                              ELSE last_write
            /\ db_chunks' = {c \in db_chunks : c[1] # file_id}
            /\ db_files' = db_files \ {file_id}
            /\ deleted' = deleted \cup {file_id}
            /\ ret' = Returned("delete_file", file_id, TRUE)
            /\ UNCHANGED <<ss_initialized, loop, is_initialized, is_search_service,
                           next_file_id, lex_vars>>

\* ------------------------------------------------------------ failing writes
\* where a dense write may be left by an exception: encoder.encode raising
\* for a chunk, or faiss.write_index raising in _save_index before anything
\* is written
Faults == {"encode", "save"}

\* IndexingService.index_file(file_path, filename) whose add_documents
\* raises: _store_file_metadata has committed the rows by then; encode raises
\* before the index is touched, _save_index after index.add and
\* documents.extend
IndexFileFails(up, fault) ==
    /\ is_initialized /\ is_allowed_file(up.filename)
    /\ is_search_service /\ ss_initialized
    /\ next_file_id <= MaxFiles
    /\ LET file_id == next_file_id
           new_documents == NewDocuments(file_id, up)
           added == AddDocuments(index, documents, new_documents)
       IN /\ new_documents # <<>>
          /\ next_file_id' = next_file_id + 1
          /\ db_files' = db_files \cup {file_id}
          /\ db_chunks' = db_chunks \cup {new_documents[i].chunk_id : i \in DOMAIN new_documents}
          /\ index' = IF fault = "save" THEN added[1] ELSE index
          /\ documents' = IF fault = "save" THEN added[2] ELSE documents
          /\ last_write' = IF fault = "save"
                            THEN [op |-> "add", file_id |-> file_id, chunks |-> new_documents]
                            ELSE last_write
    /\ ret' = Raised("index_file", up)
    /\ UNCHANGED <<ss_initialized, loop, disk, is_initialized, is_search_service, lex_vars, deleted>>

\* IndexingService.delete_file(file_id) whose delete_file_documents raises
\* inside _rebuild_index: self.documents holds the kept documents by then and
\* self.index is the new empty index (encode raising) or the rebuilt one
\* (_save_index raising); the rows of the file are not deleted
DeleteFileFails(file_id, fault) ==
    /\ is_initialized /\ file_id \in db_files
    /\ is_search_service /\ ss_initialized
    /\ LET docs_to_keep == SelectSeq2(documents, file_id)
       IN /\ Len(docs_to_keep) < Len(documents)
          /\ fault = "encode" => docs_to_keep # <<>>
          /\ documents' = docs_to_keep
          /\ index' = IF fault = "encode" THEN <<>> ELSE RebuildIndex(docs_to_keep)
          /\ last_write' = [op |-> "delete", file_id |-> file_id,
                            chunks |-> DocumentsOf(documents, file_id)]
    /\ ret' = Raised("delete_file", file_id)
    /\ UNCHANGED <<ss_initialized, loop, disk, store_vars, lex_vars, deleted>>

\* ------------------------------------------------------------ event loop
\* The handlers are coroutines of one asyncio event loop.  A write is taken
\* statement by statement; the loop runs another coroutine only where the
\* running one suspends.

\* every "await" of a write is taken as a point where the loop may switch
Suspends_AtEveryAwait(pc) == pc \in {"done", "await _rebuild_index", "await _save_index"}

\* the loop has control at pc.  The coroutines that index_file, delete_file,
\* add_documents, delete_file_documents, _rebuild_index and _save_index await
\* (process_file, _store_file_metadata, each other) hold no statement that
\* suspends, so the await expressions run them inline: a write gives up
\* control only when it is done
Suspends(pc) == pc = "done"

\* arguments of the searches that arrive while writes run
LoopRequests ==
    {[query |-> TApple, limit |-> 2, threshold |-> -200],
     [query |-> TBoth, limit |-> 1, threshold |-> 700]}

\* index_file up to self.index.add of add_documents: the checks, the rows of
\* _store_file_metadata and the embeddings
BeginIndexFile(up) ==
    /\ Suspends(loop.pc)
    /\ IF ~is_initialized \/ ~is_allowed_file(up.filename)
       THEN /\ ret' = Raised("index_file", up)
            /\ UNCHANGED <<dense_vars, store_vars>>
       ELSE /\ next_file_id <= MaxFiles
            /\ LET file_id == next_file_id
                   new_documents == NewDocuments(file_id, up)
                   to_dense == is_search_service /\ ss_initialized
               IN /\ next_file_id' = next_file_id + 1
                  /\ db_files' = db_files \cup {file_id}
                  /\ db_chunks' = db_chunks
                                    \cup {new_documents[i].chunk_id : i \in DOMAIN new_documents}
                  /\ IF to_dense /\ new_documents # <<>>
                     THEN /\ loop' = [loop EXCEPT !.op = "add", !.pc = "index.add",
                                        !.file_id = file_id, !.chunks = new_documents,
                                        !.pre = <<index, documents>>,
                                        !.post = AddDocuments(index, documents, new_documents)]
                          /\ ret' = ret
                     ELSE /\ loop' = loop
                          /\ ret' = Returned("index_file", up,
                                             [file_id |-> file_id,
                                              chunks_indexed |-> Len(new_documents)])
            /\ UNCHANGED <<ss_initialized, index, documents, disk,
                           is_initialized, is_search_service>>
    /\ UNCHANGED <<lex_vars, deleted, last_write>>

\* delete_file up to the assignment self.documents = docs_to_keep of
\* delete_file_documents: the lookup of the file and the choice of the
\* documents to keep
BeginDeleteFile(file_id) ==
    /\ Suspends(loop.pc)
    /\ LET docs_to_keep == SelectSeq2(documents, file_id)
           to_dense == is_search_service /\ ss_initialized
       IN IF ~is_initialized
          THEN /\ ret' = Raised("delete_file", file_id)
               /\ UNCHANGED <<dense_vars, store_vars, deleted>>
          ELSE IF file_id \notin db_files
          THEN /\ ret' = Returned("delete_file", file_id, FALSE)
               /\ UNCHANGED <<dense_vars, store_vars, deleted>>
          ELSE IF to_dense /\ Len(docs_to_keep) < Len(documents)
          THEN /\ loop' = [loop EXCEPT !.op = "delete", !.pc = "documents =",
                             !.file_id = file_id, !.chunks = docs_to_keep,
                             !.pre = <<index, documents>>,
                             !.post = <<RebuildIndex(docs_to_keep), docs_to_keep>>]
               /\ ret' = ret
               /\ UNCHANGED <<ss_initialized, index, documents, disk, store_vars, deleted>>
          ELSE /\ db_chunks' = {c \in db_chunks : c[1] # file_id}
               /\ db_files' = db_files \ {file_id}
               /\ deleted' = deleted \cup {file_id}
               /\ ret' = Returned("delete_file", file_id, TRUE)
               /\ UNCHANGED <<dense_vars, is_initialized, is_search_service, next_file_id>>
    /\ UNCHANGED <<lex_vars, last_write>>

\* the next statement of the write in progress
Step ==
    /\ loop.pc # "done"
    /\ LET pc == loop.pc
           next_pc ==
               IF loop.op = "add"
               THEN (IF pc = "index.add" THEN "documents.extend"
                     ELSE IF pc = "documents.extend" THEN "await _save_index"
                     ELSE "done")
               ELSE (IF pc = "documents =" THEN "await _rebuild_index"
                     ELSE IF pc = "await _rebuild_index" THEN "rebuilt index.add"
                     ELSE IF pc = "rebuilt index.add" THEN "await _save_index"
                     ELSE IF pc = "await _save_index" THEN "commit"
                     ELSE "done")
       IN /\ loop' = [loop EXCEPT !.pc = next_pc]
          /\ index' = IF pc = "index.add"
                      THEN index \o [i \in DOMAIN loop.chunks |-> loop.chunks[i].content]
                      ELSE IF pc = "await _rebuild_index" THEN <<>>
                      ELSE IF pc = "rebuilt index.add" THEN RebuildIndex(documents)
                      ELSE index
          /\ documents' = IF pc = "documents.extend" THEN documents \o loop.chunks
                          ELSE IF pc = "documents =" THEN loop.chunks
                          ELSE documents
          /\ disk' = IF pc = "await _save_index" THEN SaveIndex(index, documents) ELSE disk
          /\ db_chunks' = IF pc = "commit" THEN {c \in db_chunks : c[1] # loop.file_id}
                          ELSE db_chunks
          /\ db_files' = IF pc = "commit" THEN db_files \ {loop.file_id} ELSE db_files
          /\ deleted' = IF pc = "commit" THEN deleted \cup {loop.file_id} ELSE deleted
          /\ ret' = IF next_pc # "done" THEN ret
                    ELSE IF loop.op = "add"
                    THEN Returned("index_file",
                                  [filename |-> loop.chunks[1].filename,
                                   chunks |-> [i \in DOMAIN loop.chunks |->
                                                 loop.chunks[i].content]],
                                  [file_id |-> loop.file_id,
                                   chunks_indexed |-> Len(loop.chunks)])
                    ELSE Returned("delete_file", loop.file_id, TRUE)
    /\ UNCHANGED <<ss_initialized, is_initialized, is_search_service, next_file_id,
                   lex_vars, last_write>>

\* a search request reaches the server, at any moment of a write
Arrive(req) ==
    /\ ~loop.waiting
    /\ loop' = [loop EXCEPT !.waiting = TRUE, !.req = req, !.arrived_at = loop.pc]
    /\ UNCHANGED <<ss_initialized, index, documents, disk, store_vars, lex_vars,
                   ret, deleted, last_write>>

\* the loop runs SearchService.search for the waiting request; value records
\* the <<index, documents>> the search read, the write it waited for and the
\* statement that write was at when the request arrived
RunSearch ==
    /\ loop.waiting
    /\ Suspends(loop.pc)
    /\ ret' = IF ~ss_initialized THEN Raised("search", loop.req)
              ELSE Return("search", loop.req, FALSE,
                          [seen |-> <<index, documents>>, pre |-> loop.pre,
                           post |-> loop.post, arrived_at |-> loop.arrived_at],
                          SearchResults(index, documents, loop.req.query,
                                        loop.req.limit, loop.req.threshold),
                          0, "", NoFacets)
    /\ loop' = [loop EXCEPT !.waiting = FALSE, !.req = NoRequest, !.arrived_at = "done"]
    /\ UNCHANGED <<ss_initialized, index, documents, disk, store_vars, lex_vars,
                   deleted, last_write>>

\* ------------------------------------------------------------ lexical maintenance
\* HybridSearchService.update_bm25_index(new_documents), called with the
\* documents of one indexed file that the lexical index does not hold yet
UpdateBm25Index(file_id) ==
    LET new_documents == DocumentsOf(documents, file_id)
        docs_for_bm25 == documents_for_bm25 \o
                           [i \in DOMAIN new_documents |-> new_documents[i].content]
    IN /\ new_documents # <<>>
       /\ \A i \in DOMAIN document_metadata : document_metadata[i].file_id # file_id
       /\ documents_for_bm25' = docs_for_bm25
       /\ document_metadata' = document_metadata \o new_documents
       /\ bm25_index' = BM25Okapi([i \in DOMAIN docs_for_bm25 |-> Tokenize(docs_for_bm25[i])])
       /\ ret' = Returned("update_bm25_index", NoRequest, TRUE)
       /\ UNCHANGED <<dense_vars, store_vars, hs_initialized, deleted, last_write>>

\* update_bm25_index where BM25Okapi(corpus) raises after the two lists were
\* extended: the exception is logged and the call returns as it always does
UpdateBm25IndexFails(file_id) ==
    LET new_documents == DocumentsOf(documents, file_id)
    IN /\ new_documents # <<>>
       /\ \A i \in DOMAIN document_metadata : document_metadata[i].file_id # file_id
       /\ documents_for_bm25' = documents_for_bm25 \o
                                  [i \in DOMAIN new_documents |-> new_documents[i].content]
       /\ document_metadata' = document_metadata \o new_documents
       /\ ret' = Returned("update_bm25_index", NoRequest, TRUE)
       /\ UNCHANGED <<dense_vars, store_vars, hs_initialized, bm25_index, deleted, last_write>>

\* remove_from_bm25_index that rebuilds the index over whatever is left, even
\* over nothing
RemoveFromBm25Index_KeepIndex(file_id) ==
    /\ IF ~bm25_index.built
       THEN UNCHANGED <<bm25_index, documents_for_bm25, document_metadata>>
       ELSE LET new_metadata == SelectSeq2(document_metadata, file_id)
                new_documents == [i \in DOMAIN new_metadata |-> new_metadata[i].content]
            IN /\ documents_for_bm25' = new_documents
               /\ document_metadata' = new_metadata
               /\ bm25_index' = BM25Okapi([i \in DOMAIN new_documents |->
                                             Tokenize(new_documents[i])])
    /\ ret' = Returned("remove_from_bm25_index", NoRequest, TRUE)
    /\ UNCHANGED <<dense_vars, store_vars, hs_initialized, deleted, last_write>>

\* HybridSearchService.remove_from_bm25_index(file_id)
RemoveFromBm25Index(file_id) ==
    /\ IF ~bm25_index.built
       THEN UNCHANGED <<bm25_index, documents_for_bm25, document_metadata>>
       ELSE LET new_metadata == SelectSeq2(document_metadata, file_id)
                new_documents == [i \in DOMAIN new_metadata |-> new_metadata[i].content]
            IN /\ documents_for_bm25' = new_documents
               /\ document_metadata' = new_metadata
               /\ bm25_index' = IF new_documents # <<>>
                                 THEN BM25Okapi([i \in DOMAIN new_documents |->
                                                   Tokenize(new_documents[i])])
                                 ELSE NoIndex
    /\ ret' = Returned("remove_from_bm25_index", NoRequest, TRUE)
    /\ UNCHANGED <<dense_vars, store_vars, hs_initialized, deleted, last_write>>

\* ------------------------------------------------------------ restart
\* The process ends and a new one constructs the services: a shutdown runs
\* SearchService.cleanup, which saves the index once more, a crash does not.
\* The files in INDEX_DIR (index, metadata, metadata.db) stay.
Restart(graceful) ==
    /\ ss_initialized
    /\ disk' = IF graceful THEN SaveIndex(index, documents) ELSE disk
    /\ ss_initialized' = FALSE
    /\ index' = <<>>
    /\ documents' = <<>>
    /\ is_initialized' = FALSE
    /\ is_search_service' = FALSE
    /\ hs_initialized' = FALSE
    /\ bm25_index' = NoIndex
    /\ documents_for_bm25' = <<>>
    /\ document_metadata' = <<>>
    /\ ret' = Returned("restart", NoRequest, TRUE)
    /\ UNCHANGED <<db_files, db_chunks, next_file_id, deleted, last_write, loop>>

\* ------------------------------------------------------------ queries
\* the calls that read the indexes and change nothing
QueryOps == {"search", "hybrid_search"}

\* SearchService.search(query, None, limit, threshold).  A query leaves the
\* indexes as they are, so a query after a query reaches no state that the
\* same query right after the preceding write does not reach: each query is
\* taken from the state a non-query call returned in.
Search(req) ==
    /\ ret.op \notin QueryOps
    /\ ret' = IF ~ss_initialized THEN Raised("search", req)
              ELSE Return("search", req, FALSE, TRUE,
                          SearchResults(index, documents, req.query, req.limit, req.threshold),
                          0, "", NoFacets)
    /\ UNCHANGED <<dense_vars, store_vars, lex_vars, deleted, last_write>>

\* HybridSearchService.hybrid_search(request)
HybridSearch(req) ==
    /\ ret.op \notin QueryOps
    /\ ret' = IF ~hs_initialized THEN Raised("hybrid_search", req)
              ELSE HybridSearchResponse(ss_initialized, index, documents, bm25_index,
                                        documents_for_bm25, document_metadata, req)
    /\ UNCHANGED <<dense_vars, store_vars, lex_vars, deleted, last_write>>

\* hybrid_search whose dense path is left by an exception
HybridSearchDegraded_Propagate(call) ==
    /\ ret.op \notin QueryOps
    /\ ret' = IF ~hs_initialized \/ call.dense_raises THEN Raised("hybrid_search", call)
              ELSE Respond(GetSemanticResults(ss_initialized, index, documents, call),
                           IF call.keyword_raises THEN <<>>
                           ELSE GetKeywordResults(bm25_index, documents_for_bm25,
                                                  document_metadata, call),
                           bm25_index, call)
    /\ UNCHANGED <<dense_vars, store_vars, lex_vars, deleted, last_write>>

\* HybridSearchService.hybrid_search(request) where a path may raise:
\* _get_semantic_results and _get_keyword_results each catch every exception
\* of their path and return []
HybridSearchDegraded(call) ==
    /\ ret.op \notin QueryOps
    /\ ret' = IF ~hs_initialized THEN Raised("hybrid_search", call)
              ELSE Respond(IF call.dense_raises THEN <<>>
                           ELSE GetSemanticResults(ss_initialized, index, documents, call),
                           IF call.keyword_raises THEN <<>>
                           ELSE GetKeywordResults(bm25_index, documents_for_bm25,
                                                  document_metadata, call),
                           bm25_index, call)
    /\ UNCHANGED <<dense_vars, store_vars, lex_vars, deleted, last_write>>

\* ------------------------------------------------------------ endpoints
\* the form requests of POST /search/hybrid: the form has no field for
\* metadata_filters
EndpointRequests ==
    {HybridRequest(TApple, 2, -200, <<2, 6>>, <<>>, <<>>, <<>>, "relevance", FALSE),
     HybridRequest(TBoth, 2, 700, <<0, 0>>, <<"txt">>, <<>>, <<>>, "relevance", TRUE),
     HybridRequest(TApple, 1, 700, <<0, 10>>, <<>>, <<>>, <<>>, "filename", FALSE)}

\* POST /search/hybrid of main.py for a form request, the cache not connected:
\* HybridSearchService.hybrid_search serves the request when the service is
\* initialized, SearchService.search does otherwise; every exception becomes
\* a response 500.  value names the branch that served the request.
HybridSearchEndpoint(req) ==
    /\ ss_initialized
    /\ ret' = IF ~hs_initialized
              THEN LET search_results == SearchResults(index, documents, req.query,
                                                       req.limit, req.threshold)
                   IN Return("search_hybrid_endpoint", req, FALSE, "fallback",
                             search_results, Len(search_results), "semantic", NoFacets)
              ELSE [HybridSearchResponse(ss_initialized, index, documents, bm25_index,
                                         documents_for_bm25, document_metadata, req)
                      EXCEPT !.op = "search_hybrid_endpoint", !.value = "hybrid_search"]
    /\ UNCHANGED <<dense_vars, store_vars, lex_vars, deleted, last_write>>

\* SearchService.health_check and IndexingService.health_check: the status
\* field of the ServiceStatus they return
ServiceHealth(initialized) == IF initialized THEN "healthy" ELSE "unhealthy"

\* HybridSearchService.health_check
HybridHealthCheck(hs_init, bm25, ss_init) ==
    [status |-> IF hs_init THEN "healthy" ELSE "unhealthy",
     bm25_search |-> IF bm25.built THEN "available" ELSE "unavailable",
     semantic_search |-> IF ss_init THEN "healthy" ELSE "unhealthy"]

RECURSIVE OverallStatus(_, _)
\* the loop of get_system_health over the statuses of the services, in the
\* order they were entered: the first unhealthy or error ends it
OverallStatus(statuses, overall_status) ==
    IF statuses = <<>> THEN overall_status
    ELSE IF Head(statuses) \in {"unhealthy", "error"} THEN "unhealthy"
    ELSE OverallStatus(Tail(statuses),
                       IF Head(statuses) \in {"degraded", "disabled"}
                       THEN "degraded" ELSE overall_status)

\* class CacheService defines no health_check
CacheServiceHasHealthCheck == FALSE

\* GET /system/health of main.py once lifespan has constructed the services:
\* the lookup of cache_service.health_check raises AttributeError inside the
\* try block, whose handler answers with status "error"
GetSystemHealth ==
    /\ ss_initialized
    /\ LET hybrid == HybridHealthCheck(hs_initialized, bm25_index, ss_initialized)
           task_status == "healthy"
           overall == IF CacheServiceHasHealthCheck
                      THEN OverallStatus(<<ServiceHealth(ss_initialized),
                                           ServiceHealth(is_initialized),
                                           hybrid.status, "healthy", task_status>>,
                                         "healthy")
                      ELSE "error"
       IN ret' = Returned("system_health", NoRequest,
                          [status |-> overall, hybrid_search |-> hybrid])
    /\ UNCHANGED <<dense_vars, store_vars, lex_vars, deleted, last_write>>

\* ------------------------------------------------------------ specification
Next ==
    \/ Lifespan
    \/ HybridInitialize
    \/ \E up \in Uploads : IndexFile(up)
    \/ \E file_id \in FileIds : DeleteFile(file_id)
    \/ \E file_id \in FileIds : UpdateBm25Index(file_id)
    \/ \E file_id \in FileIds : RemoveFromBm25Index(file_id)
    \/ \E req \in SearchRequests : Search(req)
    \/ \E req \in HybridRequests : HybridSearch(req)

Spec == Init /\ [][Next]_vars

\* the writes to the stores, across restarts of the process
NextStore ==
    \/ Lifespan
    \/ HybridInitialize
    \/ \E up \in Uploads : IndexFile(up)
    \/ \E file_id \in FileIds : DeleteFile(file_id)
    \/ \E graceful \in BOOLEAN : Restart(graceful)

SpecStore == Init /\ [][NextStore]_vars

\* indexing and hybrid search with paths that may fail
NextDegraded ==
    \/ Lifespan
    \/ HybridInitialize
    \/ \E up \in Uploads : IndexFile(up)
    \/ \E file_id \in FileIds : UpdateBm25Index(file_id)
    \/ \E file_id \in FileIds : UpdateBm25IndexFails(file_id)
    \/ \E call \in Calls : HybridSearchDegraded(call)

SpecDegraded == Init /\ [][NextDegraded]_vars

\* the endpoints of main.py over the services that lifespan started
NextEndpoints ==
    \/ Lifespan
    \/ HybridInitialize
    \/ \E up \in Uploads : IndexFile(up)
    \/ \E file_id \in FileIds : UpdateBm25Index(file_id)
    \/ \E req \in EndpointRequests : HybridSearchEndpoint(req)
    \/ GetSystemHealth

SpecEndpoints == Init /\ [][NextEndpoints]_vars

\* hybrid search over a corpus that grows, the lexical index built once or
\* kept up file by file
NextFusion ==
    \/ Lifespan
    \/ HybridInitialize
    \/ \E up \in Uploads : IndexFile(up)
    \/ \E file_id \in FileIds : UpdateBm25Index(file_id)
    \/ \E req \in FusionRequests : HybridSearch(req)

SpecFusion == Init /\ [][NextFusion]_vars

\* the writes to the stores when a dense write may fail part-way
NextFaults ==
    \/ Lifespan
    \/ \E up \in Uploads : IndexFile(up)
    \/ \E file_id \in FileIds : DeleteFile(file_id)
    \/ \E up \in Uploads, fault \in Faults : IndexFileFails(up, fault)
    \/ \E file_id \in FileIds, fault \in Faults : DeleteFileFails(file_id, fault)
    \/ \E req \in SearchRequests : Search(req)

SpecFaults == Init /\ [][NextFaults]_vars

\* searches that arrive while the event loop runs the writes
NextLoop ==
    \/ Lifespan
    \/ \E up \in Uploads : BeginIndexFile(up)
    \/ \E file_id \in FileIds : BeginDeleteFile(file_id)
    \/ Step
    \/ \E req \in LoopRequests : Arrive(req)
    \/ RunSearch

SpecLoop == Init /\ [][NextLoop]_vars

\* ------------------------------------------------------------ properties
ChunkIds(s) == {s[i].chunk_id : i \in DOMAIN s}
FileIdsOf(s) == {s[i].file_id : i \in DOMAIN s}

\* the last call was a hybrid_search that returned a response
HybridReturned == ret.op = "hybrid_search" /\ ~ret.raised
\* the last call was a search that returned a list
SearchReturned == ret.op = "search" /\ ~ret.raised

\* C1: every result of hybrid_search (weights >= 0) has a combined score
\* between 0 and 1.
C1_ScoreBounds ==
    HybridReturned =>
        \A i \in DOMAIN ret.results :
            /\ RatLeq(RatOfInt(0), ret.results[i].score)
            /\ RatLeq(ret.results[i].score, RatOfInt(1000))

\* the normalised component scores of a fused result, from the raw scores its
\* metadata carries
NormOfSemantic(r) ==
    IF RatLeq(r.metadata.semantic_score, RatOfInt(1000))
    THEN r.metadata.semantic_score ELSE RatOfInt(1000)
NormOfKeyword(r) ==
    IF ~RatLt(RatOfInt(0), r.metadata.keyword_score) THEN RatOfInt(0)
    ELSE IF RatLeq(r.metadata.keyword_score, RatOfInt(10000))
    THEN Rat(r.metadata.keyword_score.num, 10 * r.metadata.keyword_score.den)
    ELSE RatOfInt(1000)

\* C2: for weights >= 0 that are not both zero the effective weights sum to 1
\* and keep the ratio of the request's weights; for both zero they are 0.7 and
\* 0.3; no denominator is zero; the combined score of every result is the
\* sum of its normalised component scores under these weights.
C2_WeightNormalization ==
    HybridReturned =>
        LET sw == ret.req.semantic_weight
            kw == ret.req.keyword_weight
            w == EffectiveWeights(sw, kw)
        IN /\ w.semantic.den # 0 /\ w.keyword.den # 0
           /\ RatEq(RatAdd(w.semantic, w.keyword), RatOfInt(1))
           /\ sw + kw > 0 => w.semantic.num * w.keyword.den * kw
                               = w.keyword.num * w.semantic.den * sw
           /\ sw + kw = 0 => RatEq(w.semantic, Rat(7, 10)) /\ RatEq(w.keyword, Rat(3, 10))
           /\ \A i \in DOMAIN ret.results :
                 LET r == ret.results[i]
                     s == NormOfSemantic(r)
                     k == NormOfKeyword(r)
                 IN IF sw + kw > 0
                    THEN RatEq(RatScale(r.score, sw + kw),
                               RatAdd(RatScale(s, sw), RatScale(k, kw)))
                    ELSE RatEq(RatScale(r.score, 10),
                               RatAdd(RatScale(s, 7), RatScale(k, 3)))

\* C2 witness: a response under weights 0.2 / 0.6 with a result that both
\* paths scored
C2_Witness ==
    /\ HybridReturned
    /\ ret.req.semantic_weight = 2 /\ ret.req.keyword_weight = 6
    /\ \E i \in DOMAIN ret.results :
          /\ RatLt(RatOfInt(0), ret.results[i].metadata.semantic_score)
          /\ RatLt(RatOfInt(0), ret.results[i].metadata.keyword_score)

\* what the two paths return for the request of the last call (a query leaves
\* the indexes as they were when it ran)
SemanticOfRet == GetSemanticResults(ss_initialized, index, documents, ret.req)
KeywordOfRet == GetKeywordResults(bm25_index, documents_for_bm25, document_metadata, ret.req)
FusedOfRet == CombineResults(SemanticOfRet, KeywordOfRet,
                             ret.req.semantic_weight, ret.req.keyword_weight)

\* the result for chunk c carries the raw scores both paths gave it
CarriesBothScores(r, c) ==
    /\ \E j \in DOMAIN SemanticOfRet :
          SemanticOfRet[j].chunk_id = c /\ r.metadata.semantic_score = SemanticOfRet[j].score
    /\ \E j \in DOMAIN KeywordOfRet :
          KeywordOfRet[j].chunk_id = c /\ r.metadata.keyword_score = KeywordOfRet[j].score
    /\ ~RatEq(r.metadata.keyword_score, RatOfInt(0))
    /\ ~RatEq(r.metadata.semantic_score, RatOfInt(0))

\* C3: a chunk that the semantic and the keyword path both return appears
\* exactly once in the fused list (and at most once in the response), with
\* the raw score of each path in its metadata, neither replaced by 0.
C3_IdentityReconciliation ==
    HybridReturned =>
        \A c \in ChunkIds(SemanticOfRet) \cap ChunkIds(KeywordOfRet) :
            /\ Cardinality({i \in DOMAIN FusedOfRet : FusedOfRet[i].chunk_id = c}) = 1
            /\ \A i \in DOMAIN FusedOfRet :
                  FusedOfRet[i].chunk_id = c => CarriesBothScores(FusedOfRet[i], c)
            /\ Cardinality({i \in DOMAIN ret.results : ret.results[i].chunk_id = c}) <= 1
            /\ \A i \in DOMAIN ret.results :
                  ret.results[i].chunk_id = c => CarriesBothScores(ret.results[i], c)

\* C3 witness: a response that holds a chunk returned by both paths
C3_Witness ==
    /\ HybridReturned
    /\ \E i \in DOMAIN ret.results :
          ret.results[i].chunk_id \in ChunkIds(SemanticOfRet) \cap ChunkIds(KeywordOfRet)

\* the response to the request of the last call with another threshold
ResponseAt(t) ==
    HybridSearchResponse(ss_initialized, index, documents, bm25_index,
                         documents_for_bm25, document_metadata,
                         [ret.req EXCEPT !.threshold = t])

\* C4: with everything else fixed, a higher threshold returns no more results
\* (total_results and len(results)) than a lower one.
C4_MonotonicThreshold ==
    HybridReturned =>
        \A t2 \in Thresholds :
            ret.req.threshold <= t2 =>
                /\ ResponseAt(t2).total_results <= ret.total_results
                /\ Len(ResponseAt(t2).results) <= Len(ret.results)

\* C4 witness: a response with results that a higher threshold cuts down
C4_Witness ==
    /\ HybridReturned
    /\ \E t2 \in Thresholds :
          /\ ret.req.threshold < t2
          /\ ResponseAt(t2).total_results < ret.total_results
          /\ ResponseAt(t2).total_results > 0

\* the chunk ids of a result list, in order
ChunkIdSeq(results) == [i \in DOMAIN results |-> results[i].chunk_id]

\* C5: with no lexical index built, hybrid_search returns the chunks of
\* SearchService.search for the same query, limit and threshold, in the same
\* order (stated for requests whose semantic path carries weight).
C5_DenseOnlyEquivalent ==
    (/\ HybridReturned /\ ~bm25_index.built /\ ss_initialized
     /\ ret.req \in PlainRequests
     /\ (ret.req.semantic_weight > 0 \/ ret.req.keyword_weight = 0)) =>
        ChunkIdSeq(ret.results)
          = ChunkIdSeq(SearchResults(index, documents, ret.req.query,
                                     ret.req.limit, ret.req.threshold))

\* C6: once delete_file has returned True for a file, no search returns a
\* result with a chunk_id or file_id of that file.
C6_DeletionCompleteness ==
    SearchReturned =>
        \A i \in DOMAIN ret.results :
            /\ ret.results[i].file_id \notin deleted
            /\ ret.results[i].chunk_id[1] \notin deleted

\* C6 witness: the file deleted last had a chunk with exactly the text of the
\* query, and the search, at the lowest threshold, still returns other chunks
C6_Witness ==
    /\ SearchReturned
    /\ last_write.op = "delete" /\ last_write.file_id \in deleted
    /\ \E i \in DOMAIN last_write.chunks : last_write.chunks[i].content = ret.req.query
    /\ ret.req.threshold = -200
    /\ ret.results # <<>>

\* C7: once delete_file has returned True for a file, neither the dense index
\* (documents) nor the lexical index (document_metadata) holds a chunk of it.
C7_DeletedFromBothIndexes ==
    \A f \in deleted :
        /\ f \notin FileIdsOf(documents)
        /\ f \notin FileIdsOf(document_metadata)

\* C8: with the hybrid service initialized, after index_file has returned
\* every chunk of the new file is in the dense and in the lexical index, and
\* the two indexes hold the same chunk ids.
C8_BothIndexesDriven ==
    hs_initialized =>
        /\ (ret.op = "index_file" /\ ~ret.raised) =>
              \A c \in db_chunks :
                  c[1] = ret.value.file_id =>
                      c \in ChunkIds(documents) /\ c \in ChunkIds(document_metadata)
        /\ ChunkIds(documents) = ChunkIds(document_metadata)

\* C9: on an empty corpus with the services initialized, search returns an
\* empty list, hybrid_search returns total_results = 0 and no results, and
\* neither raises.
C9_EmptyCorpus ==
    (/\ ss_initialized /\ hs_initialized
     /\ db_chunks = {} /\ documents = <<>>
     /\ ret.op \in QueryOps) =>
        /\ ~ret.raised
        /\ ret.results = <<>>
        /\ ret.total_results = 0

\* the last write added one chunk and the last call searched for exactly its
\* content with threshold 0.99
SearchedForNewChunk ==
    /\ SearchReturned
    /\ last_write.op = "add" /\ Len(last_write.chunks) = 1
    /\ ret.req.query = last_write.chunks[1].content
    /\ ret.req.threshold = 990
    /\ ret.req.limit >= 1

EarlierEquals ==
    {i \in DOMAIN documents :
        /\ documents[i].chunk_id # last_write.chunks[1].chunk_id
        /\ Cosine(ret.req.query, documents[i].content)
             >= Cosine(ret.req.query, last_write.chunks[1].content)}

C11_SearchContract ==
    ret.op = "search" =>
        /\ ret.raised <=> ~ss_initialized
        /\ ~ret.raised =>
              /\ Len(ret.results) <= ret.req.limit
              /\ \A i \in DOMAIN ret.results :
                    RatLeq(RatOfInt(ret.req.threshold), ret.results[i].score)
              /\ index = <<>> => ret.results = <<>>

\* C11 witness: a search that fills its limit from an index holding more
\* vectors at or above the threshold than the limit
C11_Witness ==
    /\ SearchReturned
    /\ Len(ret.results) = ret.req.limit
    /\ Cardinality({i \in DOMAIN index :
                       Cosine(ret.req.query, index[i]) >= ret.req.threshold})
         > ret.req.limit

\* C13: delete_file of a file id that table files does not hold returns
\* False, and a delete_file that returns False leaves the metadata store, the
\* dense index (in memory and on disk) and the lexical index as they were.
C13_DeleteUnknown ==
    [][/\ \A f \in FileIds :
             (ret'.op = "delete_file" /\ ret'.req = f /\ is_initialized /\ f \notin db_files)
                 => (~ret'.raised /\ ret'.value = FALSE)
       /\ (ret'.op = "delete_file" /\ ~ret'.raised /\ ret'.value = FALSE)
             => UNCHANGED <<dense_vars, store_vars, lex_vars>>]_vars

\* C13 witness: delete_file has returned False while the stores hold a file
C13_Witness ==
    /\ ret.op = "delete_file" /\ ~ret.raised /\ ret.value = FALSE
    /\ db_files # {} /\ documents # <<>> /\ document_metadata # <<>>

\* C19: while the search service serves, the files on disk hold exactly the
\* index and the documents list in memory, so the state loaded after a
\* restart is the state after the last completed write: it holds the chunks
\* of the last add and no chunk of the file deleted last.
C19_Persisted ==
    ss_initialized =>
        /\ disk.exists
        /\ disk.index = index
        /\ disk.documents = documents
        /\ last_write.op = "add" =>
              \A i \in DOMAIN last_write.chunks : last_write.chunks[i] \in Range(documents)
        /\ last_write.op = "delete" => last_write.file_id \notin FileIdsOf(documents)

\* C19 witness: start-up after a restart has loaded a non-empty index whose
\* last write was a delete
C19_Witness ==
    /\ ret.op = "lifespan"
    /\ documents # <<>>
    /\ last_write.op = "delete"

\* C17: hybrid_search raises when the hybrid service or the search service it
\* queries is not initialized, and search raises when the search service is
\* not initialized.
C17_NotInitializedPropagates ==
    /\ (ret.op = "hybrid_search" /\ (~hs_initialized \/ ~ss_initialized)) => ret.raised
    /\ (ret.op = "search" /\ ~ss_initialized) => ret.raised

\* C18: an initialized hybrid service answers whether or not a lexical index
\* is there; the response is tagged "semantic" exactly when no lexical index
\* is built or its corpus is empty, and "hybrid" only when the keyword path
\* scored the query against a corpus.
C18_SearchTypeTag ==
    (ret.op = "hybrid_search" /\ hs_initialized) =>
        /\ ~ret.raised
        /\ ret.search_type = "semantic"
             <=> (~bm25_index.built \/ documents_for_bm25 = <<>>)
        /\ ret.search_type = "hybrid"
             => (bm25_index.built /\ bm25_index.corpus # <<>> /\ documents_for_bm25 # <<>>)

\* C18 witness: a response tagged "semantic" with results, from an
\* initialized hybrid service that has no lexical index over a dense index
\* that holds chunks
C18_Witness ==
    /\ HybridReturned
    /\ ret.search_type = "semantic"
    /\ ret.results # <<>>
    /\ hs_initialized /\ ~bm25_index.built
    /\ \E i \in DOMAIN documents : documents[i].file_id \notin deleted

\* what the two paths hand to the fusion for the call that returned last, a
\* path that raised handing over the empty list
SemanticOfCall == IF ret.req.dense_raises THEN <<>> ELSE SemanticOfRet
KeywordOfCall == IF ret.req.keyword_raises THEN <<>> ELSE KeywordOfRet
FusedOfCall == CombineResults(SemanticOfCall, KeywordOfCall,
                              ret.req.semantic_weight, ret.req.keyword_weight)
\* the positions of the fused list that pass every filter and the threshold
FilteredOfCall ==
    {i \in DOMAIN FusedOfCall :
        /\ ret.req.file_types # <<>> => MatchesFileType(FusedOfCall[i], ret.req.file_types)
        /\ ret.req.content_types # <<>>
             => FusedOfCall[i].content_type \in Range(ret.req.content_types)
        /\ MatchesMetadata(FusedOfCall[i], ret.req.metadata_filters)
        /\ RatLeq(RatOfInt(ret.req.threshold), FusedOfCall[i].score)}

\* the count a facet map gives for a key
FacetCount(f, k) == IF k \in DOMAIN f THEN f[k] ELSE 0

\* five results, three of a .pdf file and two of a .txt file
ExampleResults ==
    [i \in 1..5 |->
        MakeResult(NewDocuments(i, [filename |-> IF i <= 3 THEN "a.pdf" ELSE "b.txt",
                                    chunks |-> <<TApple>>])[1],
                   RatOfInt(1000))]

\* C12: requested facets count the filtered results (those that passed every
\* filter and the threshold, before the limit): file_types[e] is the number
\* of filtered results with extension e, the content_types counts sum to
\* total_results, and 3 .pdf and 2 .txt results give {pdf: 3, txt: 2}.
C12_FacetsOverFiltered ==
    (HybridReturned /\ ret.req.facets) =>
        /\ ret.facets.requested
        /\ ret.total_results = Cardinality(FilteredOfCall)
        /\ DOMAIN ret.facets.file_types \subseteq {"pdf", "txt", "exe"}
        /\ \A e \in {"pdf", "txt", "exe"} :
              FacetCount(ret.facets.file_types, e)
                = Cardinality({i \in FilteredOfCall : Ext(FusedOfCall[i].filename) = e})
        /\ DOMAIN ret.facets.content_types \subseteq {"application/pdf", "text/plain"}
        /\ FacetCount(ret.facets.content_types, "application/pdf")
             + FacetCount(ret.facets.content_types, "text/plain") = ret.total_results
        /\ GenerateFacets(ExampleResults).file_types = ("pdf" :> 3 @@ "txt" :> 2)

\* C12 witness: facets over a filtered set that is smaller than the fused
\* set and larger than the returned page
C12_Witness ==
    /\ HybridReturned /\ ret.req.facets
    /\ Cardinality(FilteredOfCall) < Len(FusedOfCall)
    /\ Len(ret.results) < Cardinality(FilteredOfCall)

\* C14: a hybrid_search whose dense path raises returns a response; its
\* results are the keyword results fused on their own (semantic score 0),
\* filtered, sorted and limited.
C14_DensePathFailure ==
    (ret.op = "hybrid_search" /\ hs_initialized /\ ret.req.dense_raises) =>
        /\ ~ret.raised
        /\ \A i \in DOMAIN ret.results :
              /\ RatEq(ret.results[i].metadata.semantic_score, RatOfInt(0))
              /\ ret.results[i].chunk_id \in ChunkIds(KeywordOfCall)
        /\ LET lexical_only == CombineResults(<<>>, KeywordOfCall,
                                              ret.req.semantic_weight,
                                              ret.req.keyword_weight)
           IN /\ ret.total_results = Len(ApplyFilters(lexical_only, ret.req))
              /\ ret.results = Prefix(SortResults(ApplyFilters(lexical_only, ret.req),
                                                  ret.req.sort_by),
                                      ret.req.limit)

\* C14 witness: the dense path raised and chunks matched by the keyword path
\* alone are returned
C14_Witness ==
    /\ HybridReturned /\ ret.req.dense_raises /\ ~ret.req.keyword_raises
    /\ ret.results # <<>>

\* both services are initialized and both indexes hold chunks
Serving ==
    /\ ss_initialized /\ hs_initialized
    /\ index # <<>> /\ bm25_index.built

\* C15: with both indexes serving, a hybrid_search in which the dense path
\* and the keyword path both raise raises.
C15_BothPathsFail ==
    (/\ ret.op = "hybrid_search" /\ Serving
     /\ ret.req.dense_raises /\ ret.req.keyword_raises)
        => ret.raised

\* a request with a negative weight, a limit <= 0 or an empty query
InvalidRequest(req) ==
    \/ req.semantic_weight < 0 \/ req.keyword_weight < 0
    \/ req.limit <= 0
    \/ req.query = <<>>

\* C16: with both indexes serving, hybrid_search rejects an invalid request
\* with an error (and so queries neither index for it).
C16_InvalidRequestRejected ==
    (ret.op = "hybrid_search" /\ Serving /\ InvalidRequest(ret.req)) => ret.raised

\* the last call was an update_bm25_index that left the lexical index without
\* the documents it was given
LexicalUpdateFailed ==
    /\ ret.op = "update_bm25_index"
    /\ Len(bm25_index.corpus) # Len(documents_for_bm25)
    /\ \A i \in DOMAIN document_metadata :
          document_metadata[i].chunk_id \in ChunkIds(documents)

\* C20: when the dense insert of a file succeeded and the lexical update for
\* it failed, the update does not return as a plain success.
C20_PartialFailureSurfaced ==
    LexicalUpdateFailed => (ret.raised \/ ret.value # TRUE)

\* the status a health report owes the two indexes: the dense index is
\* available once SearchService is initialized, the lexical one once a BM25
\* index is built
StatusOwed ==
    IF ss_initialized /\ bm25_index.built THEN "healthy"
    ELSE IF ss_initialized \/ bm25_index.built THEN "degraded"
    ELSE "unhealthy"

\* C21: the health report says "healthy" when the dense and the lexical index
\* are both available, "degraded" when exactly one of them is, "unhealthy"
\* when neither is, in the overall status of GET /system/health and in the
\* status of HybridSearchService.health_check.
C21_HealthReflectsIndexes ==
    ret.op = "system_health" =>
        /\ ret.value.status = StatusOwed
        /\ ret.value.hybrid_search.status = StatusOwed

\* C30: once lifespan has completed, POST /search/hybrid is served by
\* HybridSearchService.hybrid_search, never by the fallback to
\* SearchService.search.
C30_EndpointServedByFusion ==
    ret.op = "search_hybrid_endpoint" => ret.value = "hybrid_search"

\* what the dense path would hand to the fusion if no threshold cut its hits
\* (no cosine is below -1)
RawSemanticOfRet ==
    GetSemanticResults(ss_initialized, index, documents, [ret.req EXCEPT !.threshold = -1000])
\* the fusion of the raw dense scores with the lexical scores
RawFusedOfRet == CombineResults(RawSemanticOfRet, KeywordOfRet,
                                ret.req.semantic_weight, ret.req.keyword_weight)

\* C22: the threshold is applied once, after the fusion, to the combined
\* score: the chunks that pass the filters are those whose combined score,
\* from the raw dense and lexical scores of the two paths, reaches the
\* threshold; the dense path's own cut removes no candidate beforehand.
C22_ThresholdAfterFusionOnly ==
    (HybridReturned /\ ret.req.limit > 0) =>
        LET owed == ApplyFilters(RawFusedOfRet, ret.req)
        IN /\ ChunkIds(ApplyFilters(FusedOfRet, ret.req)) = ChunkIds(owed)
           /\ ret.total_results = Len(owed)

\* r passes every filter of the request of the last call
PassesOfRet(r) ==
    /\ \/ ret.req.file_types = <<>>
       \/ \E i \in DOMAIN ret.req.file_types :
             Ext(r.filename) = Lower(ret.req.file_types[i])
    /\ \/ ret.req.content_types = <<>>
       \/ \E i \in DOMAIN ret.req.content_types : r.content_type = ret.req.content_types[i]
    /\ \A i \in DOMAIN ret.req.metadata_filters :
          /\ ret.req.metadata_filters[i].key \in DOMAIN r.metadata
          /\ r.metadata[ret.req.metadata_filters[i].key] = ret.req.metadata_filters[i].value
    /\ RatLeq(RatOfInt(ret.req.threshold), r.score)

\* the positions of the fused list whose results pass
KeptOfRet == {i \in DOMAIN FusedOfRet : PassesOfRet(FusedOfRet[i])}

\* C23: _apply_filters keeps a result exactly when its file type is one of
\* file_types (any case) or file_types is empty, its content type is listed
\* or content_types is empty, its metadata equals every metadata filter and
\* its score reaches the threshold; the kept results stay in input order.
C23_FilterSemantics ==
    HybridReturned =>
        LET out == ApplyFilters(FusedOfRet, ret.req)
        IN /\ Len(out) = Cardinality(KeptOfRet)
           /\ \A i \in KeptOfRet :
                 out[Cardinality({j \in KeptOfRet : j <= i})] = FusedOfRet[i]
           /\ ret.total_results = Cardinality(KeptOfRet)

\* C23 witness: a request that filters on file types and content types, over
\* a fused list in which a result of a listed file type is dropped for its
\* content type and a later result is kept
C23_Witness ==
    /\ HybridReturned
    /\ ret.req.file_types # <<>> /\ ret.req.content_types # <<>>
    /\ \E i, j \in DOMAIN FusedOfRet :
          /\ i < j /\ i \notin KeptOfRet /\ j \in KeptOfRet
          /\ \E k \in DOMAIN ret.req.file_types :
                Ext(FusedOfRet[i].filename) = Lower(ret.req.file_types[k])

\* the raw score a path gave chunk c, 0 if the path did not return it
ScoreIn(results, c) ==
    IF c \in ChunkIds(results)
    THEN (CHOOSE r \in Range(results) : r.chunk_id = c).score
    ELSE RatOfInt(0)

\* C24: the fused candidates are exactly the chunks of the semantic results
\* and of the keyword results, each once; a chunk of one path only carries
\* the score 0 for the other path; nothing else enters.
C24_FusedIsUnion ==
    HybridReturned =>
        /\ ChunkIds(FusedOfRet) = ChunkIds(SemanticOfRet) \cup ChunkIds(KeywordOfRet)
        /\ Len(FusedOfRet) = Cardinality(ChunkIds(SemanticOfRet) \cup ChunkIds(KeywordOfRet))
        /\ \A i \in DOMAIN FusedOfRet :
              LET r == FusedOfRet[i]
              IN /\ r.metadata.semantic_score = ScoreIn(SemanticOfRet, r.chunk_id)
                 /\ r.metadata.keyword_score = ScoreIn(KeywordOfRet, r.chunk_id)
        /\ ChunkIds(ret.results) \subseteq ChunkIds(FusedOfRet)

\* C24 witness: a hybrid search whose fused candidates hold a chunk only the
\* semantic path returned and a chunk only the keyword path returned
C24_Witness ==
    /\ HybridReturned
    /\ \E i, j \in DOMAIN FusedOfRet :
          /\ FusedOfRet[i].chunk_id \in ChunkIds(SemanticOfRet) \ ChunkIds(KeywordOfRet)
          /\ FusedOfRet[j].chunk_id \in ChunkIds(KeywordOfRet) \ ChunkIds(SemanticOfRet)
          /\ FusedOfRet[i].metadata.keyword_score = RatOfInt(0)
          /\ FusedOfRet[j].metadata.semantic_score = RatOfInt(0)

\* the place of chunk c in the fusion map: the semantic results in the order
\* of the dense path first, then the chunks of the keyword path alone in the
\* order of the lexical path
InsertionRank(c) ==
    IF c \in ChunkIds(SemanticOfRet)
    THEN CHOOSE i \in DOMAIN SemanticOfRet : SemanticOfRet[i].chunk_id = c
    ELSE Len(SemanticOfRet)
         + Cardinality({j \in DOMAIN KeywordOfRet :
                          /\ KeywordOfRet[j].chunk_id \notin ChunkIds(SemanticOfRet)
                          /\ j <= (CHOOSE i \in DOMAIN KeywordOfRet :
                                      KeywordOfRet[i].chunk_id = c)})

\* C25: under sort_by "relevance" the results come in non-increasing
\* combined score, and results of equal score in the order their chunks
\* entered the fusion map.  (That the same state and request give the same
\* order needs no formula: the response has no other input.)
C25_RelevanceOrder ==
    (HybridReturned /\ ret.req.sort_by = "relevance") =>
        \A i, j \in DOMAIN ret.results :
           i < j =>
              /\ RatLeq(ret.results[j].score, ret.results[i].score)
              /\ RatEq(ret.results[j].score, ret.results[i].score)
                    => InsertionRank(ret.results[i].chunk_id)
                         < InsertionRank(ret.results[j].chunk_id)

\* C25 witness: a response in relevance order that holds two results of
\* equal combined score
C25_Witness ==
    /\ HybridReturned /\ ret.req.sort_by = "relevance"
    /\ \E i, j \in DOMAIN ret.results :
          i < j /\ RatEq(ret.results[i].score, ret.results[j].score)

\* the filtered results of the last call in the order the request asks for
SortedOfRet == SortResults(ApplyFilters(FusedOfRet, ret.req), ret.req.sort_by)

\* C29: every hybrid_search response has len(results) = min(limit,
\* total_results), where total_results counts the fused results that pass
\* every filter; results is the head of the sorted filtered list, and no
\* chunk_id occurs twice in it.
C29_PageOfSortedFiltered ==
    HybridReturned =>
        /\ ret.total_results = Cardinality(KeptOfRet)
        /\ Len(ret.results) = Min(ret.req.limit, ret.total_results)
        /\ Len(ret.results) <= Len(SortedOfRet)
        /\ \A i \in DOMAIN ret.results : ret.results[i] = SortedOfRet[i]
        /\ \A i, j \in DOMAIN ret.results :
              ret.results[i].chunk_id = ret.results[j].chunk_id => i = j

\* C27: in every state the services can be in, also after an add or a delete
\* that an exception of the encoder or of the save left part-way, the index
\* holds as many vectors as there are documents and vector i is the
\* embedding of documents[i].
C27_IndexAlignedWithDocuments ==
    /\ Len(index) = Len(documents)
    /\ \A i \in DOMAIN index : i \in DOMAIN documents /\ index[i] = documents[i].content

\* C28: after every index_file and delete_file, returned or raised, the
\* metadata store and the dense index hold the same files: the chunk rows
\* are the chunks of the documents list, and every file of the documents
\* list has its row in table files.
C28_StoresAgree ==
    (ret.op \in {"index_file", "delete_file"} /\ ss_initialized) =>
        /\ db_chunks = ChunkIds(documents)
        /\ FileIdsOf(documents) \subseteq db_files

\* C26: a search that arrives while a dense write runs reads either the
\* index and documents as they were before the write or as the write leaves
\* them, never a state in which the two disagree.
C26_SearchSeesNoTornState ==
    (ret.op = "search" /\ ~ret.raised) =>
        /\ ret.value.seen \in {ret.value.pre, ret.value.post}
        /\ Len(ret.value.seen[1]) = Len(ret.value.seen[2])
        /\ \A i \in DOMAIN ret.value.seen[1] :
              ret.value.seen[1][i] = ret.value.seen[2][i].content
        /\ ret.results = SearchResults(ret.value.seen[1], ret.value.seen[2],
                                       ret.req.query, ret.req.limit, ret.req.threshold)

\* C26 witness: a search whose request arrived between two statements of a
\* write that had changed one of index and documents only, and which read
\* the state the write left
C26_Witness ==
    /\ ret.op = "search" /\ ~ret.raised
    /\ ret.value.arrived_at \in {"documents.extend", "await _rebuild_index",
                                 "rebuilt index.add"}
    /\ ret.value.seen = ret.value.post
    /\ ret.value.post # ret.value.pre
    /\ ret.results # <<>>

====
